---- MODULE Spec2Model ----
(***************************************************************************)
(* Model of the MWR matrix library (src/src/matrix.rs, src/src/error.rs).  *)
(*                                                                         *)
(* An f64 is modelled as a sign-magnitude extended rational <<s, n, d>>:   *)
(* s \in {1, -1} is the sign bit, n/d the magnitude in lowest terms.       *)
(*   d > 0            a finite value (n = 0: the signed zeros +0.0, -0.0)  *)
(*   n = 1, d = 0     an infinity                                          *)
(*   n = 0, d = 0     NaN                                                  *)
(* The arithmetic follows IEEE 754 for the special values (x/0, 0/0,       *)
(* 0*inf, inf-inf, signed zeros, NaN /= NaN); finite results are exact:    *)
(* rounding and overflow to infinity are not modelled.                     *)
(*                                                                         *)
(* A usize is UsizeBits wide.  The width is scaled down from the 32 or 64  *)
(* bits of the targets so that TLC's integers hold every product; the      *)
(* overflow of rows * cols is the same at every width.  Where a product    *)
(* overflows, a build with overflow checks (debug) panics and a build      *)
(* without them (release) wraps: both outcomes are modelled.               *)
(***************************************************************************)
EXTENDS Integers, Sequences, FiniteSets, TLC

\* ------------------------------------------------------------------ f64

RECURSIVE GCD(_, _)
GCD(a, b) == IF b = 0 THEN a ELSE GCD(b, a % b)

NaN == <<1, 0, 0>>

\* The canonical f64 of sign s and magnitude n/d.
F64(s, n, d) ==
    IF d = 0 THEN (IF n = 0 THEN NaN ELSE <<s, 1, 0>>)
    ELSE IF n = 0 THEN <<s, 0, 1>>
    ELSE LET g == GCD(n, d) IN <<s, n \div g, d \div g>>

\* An integer literal such as 2.0 or -1.0.
Lit(k) == IF k < 0 THEN <<-1, -k, 1>> ELSE <<1, k, 1>>

Zero == <<1, 0, 1>>
One == <<1, 1, 1>>

IsNaN(x) == x[2] = 0 /\ x[3] = 0
IsInf(x) == x[2] # 0 /\ x[3] = 0
IsFinite(x) == x[3] # 0
IsZero(x) == x[2] = 0 /\ x[3] # 0

\* Unary minus: flips the sign bit.
f64_neg(x) == IF IsNaN(x) THEN NaN ELSE <<-x[1], x[2], x[3]>>

\* x * y
f64_mul(x, y) == F64(x[1] * y[1], x[2] * y[2], x[3] * y[3])

\* x / y
f64_div(x, y) == F64(x[1] * y[1], x[2] * y[3], x[3] * y[2])

\* x + y
f64_add(x, y) ==
    IF IsNaN(x) \/ IsNaN(y) THEN NaN
    ELSE IF IsInf(x) THEN (IF IsInf(y) /\ x[1] # y[1] THEN NaN ELSE x)
    ELSE IF IsInf(y) THEN y
    ELSE LET num == x[1] * x[2] * y[3] + y[1] * y[2] * x[3]
             den == x[3] * y[3]
         IN  IF num = 0 THEN (IF x[1] = -1 /\ y[1] = -1 THEN <<-1, 0, 1>> ELSE Zero)
             ELSE IF num < 0 THEN F64(-1, -num, den)
             ELSE F64(1, num, den)

\* x - y
f64_sub(x, y) == f64_add(x, f64_neg(y))

\* x == y (PartialEq for f64): NaN equals nothing, +0.0 equals -0.0.
f64_eq(x, y) ==
    /\ ~IsNaN(x)
    /\ ~IsNaN(y)
    /\ \/ x = y
       \/ IsZero(x) /\ IsZero(y)

\* ---------------------------------------------------------------- usize

\* The width of usize in the model.
UsizeBits == 16

\* usize::MAX
UsizeMax == 2^UsizeBits - 1

\* a * b overflows usize: a build with overflow checks panics there.
mul_overflows(a, b) == a * b > UsizeMax

\* a * b in a build without overflow checks: the product wraps.
usize_mul(a, b) == (a * b) % (UsizeMax + 1)

\* ---------------------------------------------------------------- error

Ok(v) == [tag |-> "Ok", val |-> v]
Err(kind, message) == [tag |-> "Err", kind |-> kind, message |-> message]
\* A Rust panic (index out of bounds, unwrap of an Err): no value is returned.
Panic == [tag |-> "Panic"]

IsOk(r) == r.tag = "Ok"
IsErr(r) == r.tag = "Err"

\* MathMatrixError::to_string
to_string(e) == e.kind \o " error: " \o e.message

\* --------------------------------------------------------------- matrix

Matrix(rows, cols, data) == [rows |-> rows, cols |-> cols, data |-> data]

\* vec![0f64; n]
ZeroVec(n) == [k \in 1..n |-> Zero]

\* Matrix::new, in a build without overflow checks.
new(rows, cols, data) ==
    IF usize_mul(rows, cols) = 0
    THEN Err("FailedToInitialize", "Rows and columns must be lager than 0")
    ELSE IF usize_mul(rows, cols) = Len(data)
    THEN Ok(Matrix(rows, cols, data))
    ELSE Err("FailedToInitialize",
             "Size of data != rows * cols: " \o ToString(Len(data))
                 \o " != " \o ToString(usize_mul(rows, cols)))

\* Matrix::new in either build: where rows * cols overflows, a build with
\* overflow checks panics at the first product.
new_outcomes(rows, cols, data) ==
    IF mul_overflows(rows, cols)
    THEN {Panic, new(rows, cols, data)}
    ELSE {new(rows, cols, data)}

\* Matrix::zeros, in a build without overflow checks.
zeros(rows, cols) == new(rows, cols, ZeroVec(usize_mul(rows, cols)))

\* Matrix::zeros in either build.
zeros_outcomes(rows, cols) ==
    IF mul_overflows(rows, cols)
    THEN {Panic, zeros(rows, cols)}
    ELSE {zeros(rows, cols)}

\* Matrix::identity: data[i + rows * j] = if i == j { 1.0 } else { 0.0 }.
\* Where rows * cols overflows, every build panics: with overflow checks at
\* the product, without them when i + rows * j reaches the length of the
\* wrapped vector.
identity(rows, cols) ==
    IF mul_overflows(rows, cols) THEN Panic
    ELSE new(rows, cols,
             [k \in 1..(rows * cols) |->
                 IF (k - 1) % rows = (k - 1) \div rows THEN One ELSE Zero])

\* Matrix::get_size
get_size(m) == <<m.rows, m.cols>>

\* Matrix::get_data
get_data(m) == m.data

\* Matrix::set_value: the result and the receiver afterwards.  data[i] with
\* i >= data.len() panics and leaves the receiver as it was.
set_value(m, row, col, value) ==
    IF row > m.rows
    THEN [res |-> Err("OutOfBoundary",
                      "Row " \o ToString(row) \o " > " \o ToString(m.rows)),
          self |-> m]
    ELSE IF col > m.cols
    THEN [res |-> Err("OutOfBoundary",
                      "Column " \o ToString(col) \o " > " \o ToString(m.cols)),
          self |-> m]
    ELSE IF col * m.rows + row >= Len(m.data)
    THEN [res |-> Panic, self |-> m]
    ELSE [res |-> Ok(<<>>),
          self |-> [m EXCEPT !.data[col * m.rows + row + 1] = value]]

\* Matrix::get_value
get_value(m, row, col) ==
    IF row > m.rows
    THEN Err("OutOfBoundary", "Row " \o ToString(row) \o " > " \o ToString(m.rows))
    ELSE IF col > m.cols
    THEN Err("OutOfBoundary",
             "Column " \o ToString(col) \o " > " \o ToString(m.cols))
    ELSE IF col * m.rows + row >= Len(m.data)
    THEN Panic
    ELSE Ok(m.data[col * m.rows + row + 1])

\* impl Add for Matrix: new_data[i] = self.data[i] + other.data[i]
add(self, other) ==
    IF get_size(self) = get_size(other)
    THEN Ok(Matrix(self.rows, self.cols,
                   [k \in 1..(self.rows * self.cols) |->
                       f64_add(self.data[k], other.data[k])]))
    ELSE Err("SizeMismatch",
             "Operation not allowed between matrices with different sizes")

\* impl Sub for Matrix: new_data[i] = self.data[i] - other.data[i]
sub(self, other) ==
    IF get_size(self) = get_size(other)
    THEN Ok(Matrix(self.rows, self.cols,
                   [k \in 1..(self.rows * self.cols) |->
                       f64_sub(self.data[k], other.data[k])]))
    ELSE Err("SizeMismatch",
             "Operation not allowed between matrices with different sizes")

\* mbm_sum with "sum = ..." for "sum += ...".
RECURSIVE mbm_sum_assign(_, _, _, _, _, _)
mbm_sum_assign(self, other, i, j, k, sum) ==
    IF k >= self.cols THEN sum
    ELSE mbm_sum_assign(self, other, i, j, k + 1,
                        f64_mul(get_value(self, i, k).val, get_value(other, k, j).val))

\* The innermost loop of multiplied_by_matrix, from k with the running sum:
\* sum += self.get_value(i, k)? * other.get_value(k, j)?  (i, k, j are in
\* range, so neither call fails).
RECURSIVE mbm_sum(_, _, _, _, _, _)
mbm_sum(self, other, i, j, k, sum) ==
    IF k >= self.cols THEN sum
    ELSE mbm_sum(self, other, i, j, k + 1,
                 f64_add(sum, f64_mul(get_value(self, i, k).val,
                                      get_value(other, k, j).val)))

\* The loops over i and j of multiplied_by_matrix, from (i, j) with out_mat.
RECURSIVE mbm_loop(_, _, _, _, _)
mbm_loop(self, other, out_mat, i, j) ==
    IF i >= self.rows THEN out_mat
    ELSE IF j >= other.cols THEN mbm_loop(self, other, out_mat, i + 1, 0)
    ELSE mbm_loop(self, other,
                  set_value(out_mat, i, j, mbm_sum(self, other, i, j, 0, Zero)).self,
                  i, j + 1)

\* Matrix::multiplied_by_matrix
multiplied_by_matrix(self, other) ==
    IF self.cols # other.rows
    THEN Err("SizeMismatch", "Multiplication allowed for NxM * MxO")
    ELSE Ok(mbm_loop(self, other,
                     new(self.rows, other.cols, ZeroVec(self.rows * other.cols)).val,
                     0, 0))

\* The loops of multiplied_by_scalar, from (i, j) with output_matrix.
RECURSIVE mbs_loop(_, _, _, _, _)
mbs_loop(self, scalar, output_matrix, i, j) ==
    IF i >= self.rows THEN output_matrix
    ELSE IF j >= self.cols THEN mbs_loop(self, scalar, output_matrix, i + 1, 0)
    ELSE mbs_loop(self, scalar,
                  set_value(output_matrix, i, j,
                            f64_mul(get_value(self, i, j).val, scalar)).self,
                  i, j + 1)

\* Matrix::multiplied_by_scalar
multiplied_by_scalar(self, scalar) == mbs_loop(self, scalar, self, 0, 0)

\* The loops of transposed, from (j, i) with transposed_matrix.
RECURSIVE tr_loop(_, _, _, _)
tr_loop(self, transposed_matrix, j, i) ==
    IF j >= self.cols THEN transposed_matrix
    ELSE IF i >= self.rows THEN tr_loop(self, transposed_matrix, j + 1, 0)
    ELSE tr_loop(self,
                 set_value(transposed_matrix, j, i, get_value(self, i, j).val).self,
                 j, i + 1)

\* Matrix::transposed
transposed(self) == tr_loop(self, zeros(self.cols, self.rows).val, 0, 0)

\* eliminate with the multiplier itself in tmp_mat, not its negation.
eliminate_plus(u, i, j, multiplier) ==
    multiplied_by_matrix(
        set_value(identity(u.rows, u.cols).val, i, j, multiplier).self, u).val

\* One elimination of decompose: tmp_mat is the identity with -multiplier at
\* (i, j), and u becomes tmp_mat * u.
eliminate(u, i, j, multiplier) ==
    multiplied_by_matrix(
        set_value(identity(u.rows, u.cols).val, i, j, f64_neg(multiplier)).self,
        u).val

\* dec_loop that skips a step whose entry (i, j) is zero already, without
\* looking at the pivot.
RECURSIVE dec_loop_skip(_, _, _, _)
dec_loop_skip(l, u, i, j) ==
    IF i >= u.rows THEN Ok(<<l, u>>)
    ELSE IF j >= i THEN dec_loop_skip(l, u, i + 1, 0)
    ELSE LET numerator == get_value(u, i, j).val
             denominator == get_value(u, j, j).val
         IN  IF IsZero(numerator) THEN dec_loop_skip(l, u, i, j + 1)
             ELSE IF IsZero(denominator)
             THEN Err("FailedToDecompose", "Found zero")
             ELSE LET multiplier == f64_div(numerator, denominator)
                  IN  dec_loop_skip(set_value(l, i, j, multiplier).self,
                                    eliminate(u, i, j, multiplier), i, j + 1)

\* The elimination loops of decompose, from step (i, j) with l and u.
RECURSIVE dec_loop(_, _, _, _)
dec_loop(l, u, i, j) ==
    IF i >= u.rows THEN Ok(<<l, u>>)
    ELSE IF j >= i THEN dec_loop(l, u, i + 1, 0)
    ELSE LET numerator == get_value(u, i, j).val
             denominator == get_value(u, j, j).val
         IN  IF IsZero(denominator)
             THEN Err("FailedToDecompose", "Found zero")
             ELSE LET multiplier == f64_div(numerator, denominator)
                  IN  dec_loop(set_value(l, i, j, multiplier).self,
                               eliminate(u, i, j, multiplier), i, j + 1)

\* Matrix::decompose: Ok(<<l, u>>) or an error.
decompose(self) ==
    IF self.rows # self.cols
    THEN Err("OperationNotPermitted",
             "LU decomposition allowed only for square matrices")
    ELSE dec_loop(identity(self.rows, self.cols).val, self, 1, 0)

\* fwd_elem with elem += l_row_i * y_i_col.
RECURSIVE fwd_elem_plus(_, _, _, _, _, _)
fwd_elem_plus(l_mat, y_mat, row, col, i, elem) ==
    IF i >= row THEN elem
    ELSE fwd_elem_plus(l_mat, y_mat, row, col, i + 1,
                       f64_add(elem, f64_mul(get_value(l_mat, row, i).val,
                                             get_value(y_mat, i, col).val)))

\* Forward substitution, innermost loop: elem += -l_row_i * y_i_col.
RECURSIVE fwd_elem(_, _, _, _, _, _)
fwd_elem(l_mat, y_mat, row, col, i, elem) ==
    IF i >= row THEN elem
    ELSE fwd_elem(l_mat, y_mat, row, col, i + 1,
                  f64_add(elem, f64_mul(f64_neg(get_value(l_mat, row, i).val),
                                        get_value(y_mat, i, col).val)))

\* Forward substitution (L*Y = I), from (col, row) with y_mat.
RECURSIVE fwd_loop(_, _, _, _, _)
fwd_loop(l_mat, y_mat, size, col, row) ==
    IF col >= size THEN y_mat
    ELSE IF row >= size THEN fwd_loop(l_mat, y_mat, size, col + 1, col + 2)
    ELSE fwd_loop(l_mat,
                  set_value(y_mat, row, col,
                            fwd_elem(l_mat, y_mat, row, col, col + 1,
                                     f64_neg(get_value(l_mat, row, col).val))).self,
                  size, col, row + 1)

\* Back substitution, innermost loop:
\* elem += -u_mat.get_value(row, i)? * x_mat.get_value(i, col)?.
RECURSIVE back_elem(_, _, _, _, _, _, _)
back_elem(u_mat, x_mat, size, row, col, i, elem) ==
    IF i >= size THEN elem
    ELSE back_elem(u_mat, x_mat, size, row, col, i + 1,
                   f64_add(elem, f64_mul(f64_neg(get_value(u_mat, row, i).val),
                                         get_value(x_mat, i, col).val)))

\* Back substitution (U*X = Y), from (col, row) with x_mat; row runs from
\* size-1 down to 0, and row = -1 ends a column.
RECURSIVE back_loop(_, _, _, _, _, _)
back_loop(u_mat, y_mat, x_mat, size, col, row) ==
    IF col >= size THEN x_mat
    ELSE IF row < 0 THEN back_loop(u_mat, y_mat, x_mat, size, col + 1, size - 1)
    ELSE LET elem == back_elem(u_mat, x_mat, size, row, col, row + 1,
                               get_value(y_mat, row, col).val)
             divider == get_value(u_mat, row, row).val
         IN  back_loop(u_mat, y_mat,
                       set_value(x_mat, row, col, f64_div(elem, divider)).self,
                       size, col, row - 1)

\* invert that maps every error of decompose to FailedToDecompose instead of
\* returning it as it is.
invert_map_err(self) ==
    LET size == self.rows
        lu == decompose(self)
    IN  IF IsErr(lu) THEN Err("FailedToDecompose", "Found zero")
        ELSE LET l_mat == lu.val[1]
                 u_mat == lu.val[2]
                 y_mat == fwd_loop(l_mat, identity(size, size).val, size, 0, 1)
             IN  Ok(back_loop(u_mat, y_mat, zeros(size, size).val,
                              size, 0, size - 1))

\* Matrix::invert
invert(self) ==
    LET size == self.rows
        lu == decompose(self)
    IN  IF IsErr(lu) THEN lu
        ELSE LET l_mat == lu.val[1]
                 u_mat == lu.val[2]
                 y_mat == fwd_loop(l_mat, identity(size, size).val, size, 0, 1)
             IN  Ok(back_loop(u_mat, y_mat, zeros(size, size).val,
                              size, 0, size - 1))

\* ---------------------------------------------------------------- bounds

\* Matrix entries given by the client are the integers 0..MaxVal.
MaxVal == 1
\* The longest backing vector of a matrix the client constructs.
MaxLen == 4
\* The longest backing vector of an operand of the multiplication runs.
MulMaxLen == 4
\* The longest backing vector of a square matrix given to decompose and invert.
LUMaxLen == 9

Vals == {Lit(v) : v \in 0..MaxVal}

\* All vectors of client values of length n.
Vecs(n) == [1..n -> Vals]

\* The shapes <<rows, cols>>, a dimension 0 included, of at most n elements.
Shapes(n) == {s \in (0..n) \X (0..n) : s[1] * s[2] <= n}

\* All matrices with client values whose backing vector has at most n elements.
Mats(n) ==
    UNION {{Matrix(s[1], s[2], d) : d \in Vecs(s[1] * s[2])} :
               s \in {t \in Shapes(n) : t[1] * t[2] > 0}}

\* All square matrices with client values of at most n elements.
SquareMats(n) ==
    UNION {{Matrix(r, r, d) : d \in Vecs(r * r)} : r \in {x \in 1..n : x * x <= n}}

\* -------------------------------------------------------- client program

(***************************************************************************)
(* A client of the library: it holds one matrix binding and calls the      *)
(* library on it.                                                          *)
(*   mat   the matrix the client holds, or NoMatrix                        *)
(*   pre   the receiver as it was when the last call was made              *)
(*   call  the last call and its arguments                                 *)
(*   ret   what the last call returned, or Panic: the thread has unwound   *)
(* The client first constructs a matrix, then makes one call at a time;    *)
(* between two calls it keeps the matrix only.                             *)
(***************************************************************************)
VARIABLES mat, pre, call, ret

vars == <<mat, pre, call, ret>>

NoMatrix == <<>>

\* The client holds a matrix whose rows * cols fits a usize.  The calls on a
\* matrix built from an overflowed product are not modelled.
Usable == mat # NoMatrix /\ ~mul_overflows(mat.rows, mat.cols)

\* The client holds a matrix and no call is pending.
Ready ==
    /\ Usable
    /\ call.op \in {"new", "zeros", "identity", "idle"}

\* let mat = Matrix::new(rows, cols, data)
New(rows, cols, data) ==
    /\ call.op = "start"
    /\ call' = [op |-> "new", rows |-> rows, cols |-> cols, data |-> data]
    /\ ret' \in new_outcomes(rows, cols, data)
    /\ mat' = IF IsOk(ret') THEN ret'.val ELSE NoMatrix
    /\ pre' = NoMatrix

\* let mat = Matrix::zeros(rows, cols)
Zeros(rows, cols) ==
    /\ call.op = "start"
    /\ call' = [op |-> "zeros", rows |-> rows, cols |-> cols]
    /\ ret' \in zeros_outcomes(rows, cols)
    /\ mat' = IF IsOk(ret') THEN ret'.val ELSE NoMatrix
    /\ pre' = NoMatrix

\* let mat = Matrix::identity(rows, cols)
Identity(rows, cols) ==
    /\ call.op = "start"
    /\ call' = [op |-> "identity", rows |-> rows, cols |-> cols]
    /\ ret' = identity(rows, cols)
    /\ mat' = IF IsOk(ret') THEN ret'.val ELSE NoMatrix
    /\ pre' = NoMatrix

\* mat.set_value(row, col, value)
SetValue(row, col, value) ==
    /\ Ready
    /\ call' = [op |-> "set_value", row |-> row, col |-> col, value |-> value]
    /\ ret' = set_value(mat, row, col, value).res
    /\ mat' = set_value(mat, row, col, value).self
    /\ pre' = mat

\* mat.get_value(row, col)
GetValue(row, col) ==
    /\ Ready
    /\ call' = [op |-> "get_value", row |-> row, col |-> col]
    /\ ret' = get_value(mat, row, col)
    /\ pre' = mat
    /\ UNCHANGED mat

\* mat.clone() + other
Add(other) ==
    /\ Ready
    /\ call' = [op |-> "add", other |-> other]
    /\ ret' = add(mat, other)
    /\ pre' = mat
    /\ UNCHANGED mat

\* mat.clone() - other
Sub(other) ==
    /\ Ready
    /\ call' = [op |-> "sub", other |-> other]
    /\ ret' = sub(mat, other)
    /\ pre' = mat
    /\ UNCHANGED mat

\* mat.multiplied_by_matrix(&other)
MultipliedByMatrix(other) ==
    /\ Ready
    /\ call' = [op |-> "multiplied_by_matrix", other |-> other]
    /\ ret' = multiplied_by_matrix(mat, other)
    /\ pre' = mat
    /\ UNCHANGED mat

\* mat.multiplied_by_scalar(scalar)
MultipliedByScalar(scalar) ==
    /\ Ready
    /\ call' = [op |-> "multiplied_by_scalar", scalar |-> scalar]
    /\ ret' = Ok(multiplied_by_scalar(mat, scalar))
    /\ pre' = mat
    /\ UNCHANGED mat

\* mat.transposed()
Transposed ==
    /\ Ready
    /\ call' = [op |-> "transposed"]
    /\ ret' = Ok(transposed(mat))
    /\ pre' = mat
    /\ UNCHANGED mat

\* mat.decompose()
Decompose ==
    /\ Ready
    /\ call' = [op |-> "decompose"]
    /\ ret' = decompose(mat)
    /\ pre' = mat
    /\ UNCHANGED mat

\* mat.invert()
Invert ==
    /\ Ready
    /\ call' = [op |-> "invert"]
    /\ ret' = invert(mat)
    /\ pre' = mat
    /\ UNCHANGED mat

\* The matrices a successful call returned: one, or the pair of decompose.
Returned ==
    IF ~IsOk(ret) THEN {}
    ELSE IF call.op = "decompose" THEN {ret.val[1], ret.val[2]}
    ELSE IF call.op \in {"start", "idle", "set_value", "get_value"} THEN {}
    ELSE {ret.val}

\* let mat = <a matrix the last call returned>.  To keep the run finite the
\* client goes on only with matrices of client values within MaxLen.
Rebind ==
    /\ \E m \in Returned :
          /\ Len(m.data) <= MaxLen
          /\ \A k \in 1..Len(m.data) : m.data[k] \in Vals
          /\ mat' = m
    /\ pre' = NoMatrix
    /\ call' = [op |-> "idle"]
    /\ ret' = Ok(<<>>)

\* The client drops what the last call returned and goes on with its matrix;
\* after a panic it does not go on.
Settle ==
    /\ Usable
    /\ call.op \notin {"start", "idle"}
    /\ ret.tag # "Panic"
    /\ pre' = NoMatrix
    /\ call' = [op |-> "idle"]
    /\ ret' = Ok(<<>>)
    /\ UNCHANGED mat

\* The second operands the client tries: matrices of zeros and identity
\* patterns of every shape, the matrix itself and its transpose.
Operands ==
    (IF Usable THEN {mat, transposed(mat)} ELSE {})
        \cup {zeros(s[1], s[2]).val : s \in {t \in Shapes(MaxLen) : t[1] * t[2] > 0}}
        \cup {identity(s[1], s[2]).val : s \in {t \in Shapes(MaxLen) : t[1] * t[2] > 0}}

\* The indices the client tries: those in range, the dimension itself and
\* one past it.
RowArgs == IF Usable THEN 0..(mat.rows + 1) ELSE {}
ColArgs == IF Usable THEN 0..(mat.cols + 1) ELSE {}

\* Shapes whose rows * cols overflows and wraps to at most MaxLen.
BigShapes ==
    {s \in {2^(UsizeBits - 1), 2^(UsizeBits - 1) + 1} \X (0..MaxLen) :
        mul_overflows(s[1], s[2]) /\ usize_mul(s[1], s[2]) <= MaxLen}

Init ==
    /\ mat = NoMatrix
    /\ pre = NoMatrix
    /\ call = [op |-> "start"]
    /\ ret = Ok(<<>>)

Next ==
    \/ \E s \in ((0..MaxLen) \X (0..MaxLen)) \cup BigShapes, n \in 0..MaxLen :
          \E data \in Vecs(n) : New(s[1], s[2], data)
    \/ \E s \in Shapes(MaxLen) \cup BigShapes : Zeros(s[1], s[2])
    \/ \E s \in Shapes(MaxLen) \cup BigShapes : Identity(s[1], s[2])
    \/ \E row \in RowArgs, col \in ColArgs, value \in Vals : SetValue(row, col, value)
    \/ \E row \in RowArgs, col \in ColArgs : GetValue(row, col)
    \/ \E other \in Operands : Add(other)
    \/ \E other \in Operands : Sub(other)
    \/ \E other \in Operands : MultipliedByMatrix(other)
    \/ \E scalar \in Vals : MultipliedByScalar(scalar)
    \/ Transposed
    \/ Decompose
    \/ Invert
    \/ Rebind
    \/ Settle

Spec == Init /\ [][Next]_vars

\* Multiplication of every pair of matrices within MulMaxLen.
InitMul ==
    /\ mat \in Mats(MulMaxLen)
    /\ pre = NoMatrix
    /\ call = [op |-> "new", rows |-> mat.rows, cols |-> mat.cols, data |-> mat.data]
    /\ ret = Ok(mat)

NextMul == \E other \in Mats(MulMaxLen) : MultipliedByMatrix(other)

SpecMul == InitMul /\ [][NextMul]_vars

\* Decomposition and inversion of every matrix within MaxLen and of every
\* square matrix within LUMaxLen.
InitLU ==
    /\ mat \in Mats(MaxLen) \cup SquareMats(LUMaxLen)
    /\ pre = NoMatrix
    /\ call = [op |-> "new", rows |-> mat.rows, cols |-> mat.cols, data |-> mat.data]
    /\ ret = Ok(mat)

NextLU ==
    \/ Invert
    \/ Decompose

SpecLU == InitLU /\ [][NextLU]_vars

\* --------------------------------------------------------------- claims

\* Element (row, col), 0-based, of a matrix in the column-major layout.
At(m, row, col) == m.data[col * m.rows + row + 1]

InRange(m, row, col) == row \in 0..(m.rows - 1) /\ col \in 0..(m.cols - 1)

\* a == b for matrices (derive(PartialEq)).
MatEq(a, b) ==
    /\ a.rows = b.rows
    /\ a.cols = b.cols
    /\ Len(a.data) = Len(b.data)
    /\ \A k \in 1..Len(a.data) : f64_eq(a.data[k], b.data[k])

\* The sum over k' in 0..k of a[i,k'] * b[k',j].
RECURSIVE Sigma(_, _, _, _, _)
Sigma(a, b, i, j, k) ==
    IF k < 0 THEN Zero
    ELSE f64_add(Sigma(a, b, i, j, k - 1), f64_mul(At(a, i, k), At(b, k, j)))

\* c is the matrix product a * b.
IsProduct(c, a, b) ==
    /\ c.rows = a.rows
    /\ c.cols = b.cols
    /\ Len(c.data) = a.rows * b.cols
    /\ \A i \in 0..(a.rows - 1), j \in 0..(b.cols - 1) :
          f64_eq(At(c, i, j), Sigma(a, b, i, j, a.cols - 1))

IsIdentity(m) ==
    \A i \in 0..(m.rows - 1), j \in 0..(m.cols - 1) :
        f64_eq(At(m, i, j), IF i = j THEN One ELSE Zero)

UnitLowerTriangular(m) ==
    \A i \in 0..(m.rows - 1), j \in 0..(m.cols - 1) :
        /\ i = j => f64_eq(At(m, i, j), One)
        /\ i < j => f64_eq(At(m, i, j), Zero)

UpperTriangular(m) ==
    \A i \in 0..(m.rows - 1), j \in 0..(m.cols - 1) :
        i > j => f64_eq(At(m, i, j), Zero)

ZeroOnDiagonal(m) == \E r \in 0..(m.rows - 1) : IsZero(At(m, r, r))

\* The row operation "row i <- row i - multiplier * row j", done in place.
RowOperation(u, i, j, multiplier) ==
    [u EXCEPT !.data =
        [k \in 1..Len(u.data) |->
            IF (k - 1) % u.rows = i
            THEN f64_sub(u.data[k], f64_mul(multiplier, u.data[k - i + j]))
            ELSE u.data[k]]]

\* Gaussian elimination without pivoting of the square matrix u, from step
\* (i, j), rows in increasing order and columns in increasing order within a
\* row, meets a pivot u[j,j] = 0 at some step.
RECURSIVE ZeroPivotMet(_, _, _)
ZeroPivotMet(u, i, j) ==
    IF i >= u.rows THEN FALSE
    ELSE IF j >= i THEN ZeroPivotMet(u, i + 1, 0)
    ELSE IF IsZero(At(u, j, j)) THEN TRUE
    ELSE ZeroPivotMet(RowOperation(u, i, j, f64_div(At(u, i, j), At(u, j, j))),
                      i, j + 1)

WellFormed(m) == m.rows > 0 /\ m.cols > 0 /\ Len(m.data) = m.rows * m.cols

OutOfBoundary(r) == r.tag = "Err" /\ r.kind = "OutOfBoundary"

\* C1: get_value(row, col) and set_value(row, col, v) return an OutOfBoundary
\* error if and only if row >= rows or col >= cols.
C1_OutOfBoundaryIffOutside ==
    call.op \in {"get_value", "set_value"} =>
        (OutOfBoundary(ret) <=> (call.row >= pre.rows \/ call.col >= pre.cols))

\* get_value or set_value was given row == rows and did not return
\* OutOfBoundary.
C1_Witness ==
    /\ call.op \in {"get_value", "set_value"}
    /\ call.row = pre.rows
    /\ ~OutOfBoundary(ret)

C4_SingularUIsAnError ==
    (call.op = "invert" /\ IsOk(decompose(pre))
        /\ ZeroOnDiagonal(decompose(pre).val[2])) => IsErr(ret)

\* invert returned a matrix although U has a zero on its diagonal: the
\* matrix has an entry that is not finite.
C4_Witness ==
    /\ call.op = "invert"
    /\ IsOk(ret)
    /\ ZeroOnDiagonal(decompose(pre).val[2])
    /\ \E k \in 1..Len(ret.val.data) : ~IsFinite(ret.val.data[k])

\* C5: decompose(M) of a square M fails with FailedToDecompose if and only
\* if elimination without row swaps, rows in increasing order and columns in
\* increasing order within a row, meets a zero pivot U[j,j], whatever U[i,j]
\* is; it then returns no (L, U).
C5_FailsIffZeroPivot ==
    (call.op = "decompose" /\ pre.rows = pre.cols) =>
        /\ (IsErr(ret) /\ ret.kind = "FailedToDecompose")
               <=> ZeroPivotMet(pre, 1, 0)
        /\ ~ZeroPivotMet(pre, 1, 0) => IsOk(ret)

\* decompose failed on a 3 x 3 matrix whose entries (0,0), (1,1) and (2,1)
\* are nonzero: the zero pivot arose at step (2, 1), from the elimination.
C5_Witness ==
    /\ call.op = "decompose"
    /\ IsErr(ret)
    /\ pre.rows = 3
    /\ pre.cols = 3
    /\ ~IsZero(At(pre, 0, 0))
    /\ ~IsZero(At(pre, 1, 1))
    /\ ~IsZero(At(pre, 2, 1))

\* C6: multiplied_by_matrix(a, b) fails with SizeMismatch if and only if
\* a.cols /= b.rows; otherwise it returns the a.rows x b.cols matrix whose
\* entry (i, j) is the sum over k of a[i,k] * b[k,j].
C6_ProductOrSizeMismatch ==
    call.op = "multiplied_by_matrix" =>
        /\ (IsErr(ret) /\ ret.kind = "SizeMismatch")
               <=> pre.cols # call.other.rows
        /\ pre.cols = call.other.rows =>
              IsOk(ret) /\ IsProduct(ret.val, pre, call.other)

\* Two 2 x 2 matrices were multiplied and an entry of the product is 2.
C6_Witness ==
    /\ call.op = "multiplied_by_matrix"
    /\ IsOk(ret)
    /\ pre.rows = 2 /\ pre.cols = 2 /\ call.other.cols = 2
    /\ \E k \in 1..4 : ret.val.data[k] = Lit(2)

\* C7: new(rows, cols, data) succeeds if and only if rows > 0, cols > 0 and
\* the length of data is rows * cols; otherwise it returns FailedToInitialize
\* and no matrix, with the message "Size of data != rows * cols: <length> !=
\* <rows*cols>" when only the length is wrong.
C7_NewSucceedsIff ==
    call.op = "new" =>
        LET good == call.rows > 0 /\ call.cols > 0
                        /\ Len(call.data) = call.rows * call.cols
        IN  /\ IsOk(ret) <=> good
            /\ good => ret.val = Matrix(call.rows, call.cols, call.data) /\ mat = ret.val
            /\ ~good => IsErr(ret) /\ ret.kind = "FailedToInitialize" /\ mat = NoMatrix
            /\ (~good /\ IsErr(ret) /\ call.rows > 0 /\ call.cols > 0) =>
                  to_string(ret) = "FailedToInitialize error: Size of data != rows * cols: "
                                       \o ToString(Len(call.data)) \o " != "
                                       \o ToString(call.rows * call.cols)
            /\ (call.rows = 2 /\ call.cols = 2 /\ Len(call.data) = 3) =>
                  ret.message = "Size of data != rows * cols: 3 != 4"

\* new returned a matrix although the length of data is not rows * cols:
\* the product overflowed and wrapped to the length.
C7_Witness ==
    /\ call.op = "new"
    /\ IsOk(ret)
    /\ Len(call.data) # call.rows * call.cols

\* C8: every matrix reached has rows > 0, cols > 0 and rows * cols elements,
\* and set_value changes neither rows, cols nor the number of elements.
C8_ShapeInvariant ==
    /\ mat # NoMatrix => WellFormed(mat)
    /\ \A m \in Returned : WellFormed(m)
    /\ call.op = "set_value" =>
          /\ mat.rows = pre.rows
          /\ mat.cols = pre.cols
          /\ Len(mat.data) = Len(pre.data)

\* The client holds a matrix whose data has fewer than rows * cols elements.
C8_Witness ==
    /\ mat # NoMatrix
    /\ Len(mat.data) < mat.rows * mat.cols

\* C9: invert(M) returns the error of decompose(M) as it is:
\* OperationNotPermitted when M is not square, FailedToDecompose when the
\* elimination of a square M meets a zero pivot.
C9_InvertPropagatesError ==
    call.op = "invert" =>
        /\ pre.rows # pre.cols =>
              ret = Err("OperationNotPermitted",
                        "LU decomposition allowed only for square matrices")
        /\ (pre.rows = pre.cols /\ ZeroPivotMet(pre, 1, 0)) =>
              ret = Err("FailedToDecompose", "Found zero")
        /\ IsErr(decompose(pre)) => ret = decompose(pre)

\* invert was called on a matrix that is not square.
C9_Witness ==
    /\ call.op = "invert"
    /\ pre.rows # pre.cols
    /\ IsErr(ret)

\* C10: a set_value(row, col, v) that succeeds changes exactly the element
\* (row, col): afterwards get_value(row, col) returns v and every other
\* element in range is as before; one that fails changes nothing.
C10_SetValueFrame ==
    call.op = "set_value" =>
        /\ IsOk(ret) =>
              /\ get_value(mat, call.row, call.col) = Ok(call.value)
              /\ \A r \in 0..(pre.rows - 1), c \in 0..(pre.cols - 1) :
                    <<r, c>> # <<call.row, call.col>> => At(mat, r, c) = At(pre, r, c)
        /\ ~IsOk(ret) => mat = pre

\* set_value(rows, col, v) succeeded and changed the element (0, col + 1).
C10_Witness ==
    /\ call.op = "set_value"
    /\ IsOk(ret)
    /\ call.row = pre.rows
    /\ call.col + 1 < pre.cols
    /\ At(mat, 0, call.col + 1) # At(pre, 0, call.col + 1)

====
